---------------------------- MODULE Spec2Model ----------------------------
(***************************************************************************)
(* Model of src/convert.js: the Substore override script that classifies   *)
(* proxies by region and cost tier and synthesises the proxy-groups and    *)
(* rules of the routing configuration.                                     *)
(*                                                                         *)
(* Text.  A JavaScript string is modelled as the tuple of its characters.  *)
(* An ASCII character is the one-character string; any other character is  *)
(* written by its code point, "U+9999" for 香.  Concatenation, the suffix  *)
(* strip and the regular-expression tests therefore operate on characters  *)
(* as the code does.  Object keys with a hyphen are written with an        *)
(* underscore (include_all for 'include-all').                             *)
(***************************************************************************)
EXTENDS Integers, Sequences, FiniteSets, TLC

VARIABLES
    rawArgs,             \* $arguments, as the script receives it (line 65)
    flags,               \* the module-level feature flags (lines 66-75)
    baseRules,           \* the module-level base rule table (lines 399-431)
    pc,                  \* position inside main
    config,              \* the argument of main
    countryInfo,         \* main: result of parseCountries
    lowCost,             \* main: result of hasLowCost
    countryGroupNames,   \* main: result of getCountryGroupNames
    countries,           \* main: result of stripNodeSuffix
    lists,               \* main: result of buildBaseLists
    countryProxyGroups,  \* main: result of buildCountryProxyGroups
    proxyGroups,         \* main: the proxy-groups array
    finalRules           \* main: result of buildRules

vars == <<rawArgs, flags, baseRules, pc, config, countryInfo, lowCost, countryGroupNames,
          countries, lists, countryProxyGroups, proxyGroups, finalRules>>

-----------------------------------------------------------------------------
(* Bounds of the model. *)

\* longest proxy list handed to main
MaxProxies == 2

\* largest countryThreshold drawn
MaxThreshold == 2

-----------------------------------------------------------------------------
(* Characters and regular expressions. *)

UpperCase == <<"A","B","C","D","E","F","G","H","I","J","K","L","M",
               "N","O","P","Q","R","S","T","U","V","W","X","Y","Z">>
LowerCase == <<"a","b","c","d","e","f","g","h","i","j","k","l","m",
               "n","o","p","q","r","s","t","u","v","w","x","y","z">>
Digits == <<"0","1","2","3","4","5","6","7","8","9">>

\* the characters a class range can run over, in code-point order
Ordered == Digits \o UpperCase \o LowerCase

IndexOf(seq, c) == IF \E i \in DOMAIN seq : seq[i] = c
                   THEN CHOOSE i \in DOMAIN seq : seq[i] = c
                   ELSE 0

\* case folding of the i flag: upper-case ASCII letters to lower case
FoldMap == [c \in { UpperCase[i] : i \in DOMAIN UpperCase } |->
               LowerCase[IndexOf(UpperCase, c)]]

Fold(c) == IF c \in DOMAIN FoldMap THEN FoldMap[c] ELSE c

FoldText(s) == [i \in DOMAIN s |-> Fold(s[i])]

\* the characters from a to b, as in the class [a-b]
CharRange(a, b) == { Ordered[i] : i \in IndexOf(Ordered, a) .. IndexOf(Ordered, b) }

Drop(s, n) == SubSeq(s, n + 1, Len(s))

StartsWith(s, p) == Len(s) >= Len(p) /\ SubSeq(s, 1, Len(p)) = p

EndsWith(s, p) == Len(s) >= Len(p) /\ SubSeq(s, Len(s) - Len(p) + 1, Len(s)) = p

\* An atom of a parsed pattern: the alternation bar, or a set of characters.
Bar == [bar |-> TRUE, set |-> {}]
Atom(set) == [bar |-> FALSE, set |-> set]

\* the members of a class body (the text between [ and ])
RECURSIVE ClassSet(_)
ClassSet(body) ==
    IF body = <<>> THEN {}
    ELSE IF Len(body) >= 3 /\ body[2] = "-"
         THEN CharRange(body[1], body[3]) \cup ClassSet(Drop(body, 3))
         ELSE {body[1]} \cup ClassSet(Drop(body, 1))

\* the pattern text as atoms: \c is the character c, [..] a class, | the bar
RECURSIVE ParseAtoms(_)
ParseAtoms(p) ==
    IF p = <<>> THEN <<>>
    ELSE IF p[1] = "\\" /\ Len(p) >= 2
         THEN <<Atom({p[2]})>> \o ParseAtoms(Drop(p, 2))
    ELSE IF p[1] = "[" /\ IndexOf(p, "]") > 0
         THEN <<Atom(ClassSet(SubSeq(p, 2, IndexOf(p, "]") - 1)))>>
              \o ParseAtoms(Drop(p, IndexOf(p, "]")))
    ELSE IF p[1] = "|"
         THEN <<Bar>> \o ParseAtoms(Drop(p, 1))
    ELSE <<Atom({p[1]})>> \o ParseAtoms(Drop(p, 1))

\* the alternatives of a parsed pattern: the runs of atoms between bars
RECURSIVE Alternatives(_)
Alternatives(atoms) ==
    IF \E i \in DOMAIN atoms : atoms[i].bar
    THEN LET i == CHOOSE k \in DOMAIN atoms :
                      atoms[k].bar /\ \A j \in 1..(k - 1) : ~atoms[j].bar
         IN {SubSeq(atoms, 1, i - 1)} \cup Alternatives(Drop(atoms, i))
    ELSE {atoms}

\* the atoms with every character of every set folded
FoldAtoms(atoms) ==
    [i \in DOMAIN atoms |-> [atoms[i] EXCEPT !.set = { Fold(c) : c \in @ }]]

\* A compiled regular expression: its alternatives and the i flag.  Under the
\* i flag the expression is kept folded and is matched against the folded text.
RegExp(pattern, ignoreCase) ==
    [alts |-> Alternatives(IF ignoreCase THEN FoldAtoms(ParseAtoms(pattern))
                           ELSE ParseAtoms(pattern)),
     ignoreCase |-> ignoreCase]

CaseInsensitivePrefix == <<"(", "?", "i", ")">>

\* pattern.replace(/^\(\?i\)/, ''), line 597
StripCaseInsensitivePrefix(pattern) ==
    IF StartsWith(pattern, CaseInsensitivePrefix)
    THEN Drop(pattern, Len(CaseInsensitivePrefix))
    ELSE pattern

MatchesAt(alt, text, i) ==
    /\ i + Len(alt) - 1 <= Len(text)
    /\ \A j \in DOMAIN alt : text[i + j - 1] \in alt[j].set

\* regex.test(name): some alternative occurs somewhere in name
Test(regex, name) ==
    LET text == IF regex.ignoreCase THEN FoldText(name) ELSE name
    IN \E alt \in regex.alts : \E i \in 1..(Len(text) + 1) : MatchesAt(alt, text, i)

-----------------------------------------------------------------------------
(* Module-level tables. *)

\* '节点'
NODE_SUFFIX == <<"U+8282", "U+70B9">>

\* lines 88-95
PROXY_GROUPS ==
    [SELECT   |-> <<"U+9009", "U+62E9", "U+4EE3", "U+7406">>,
     MANUAL   |-> <<"U+624B", "U+52A8", "U+9009", "U+62E9">>,
     FALLBACK |-> <<"U+6545", "U+969C", "U+8F6C", "U+79FB">>,
     DIRECT   |-> <<"U+76F4", "U+8FDE">>,
     LANDING  |-> <<"U+843D", "U+5730", "U+8282", "U+70B9">>,
     LOW_COST |-> <<"U+4F4E", "U+500D", "U+7387", "U+8282", "U+70B9">>]

\* the built-in terminals of the routing client
DIRECT == <<"D", "I", "R", "E", "C", "T">>
REJECT == <<"R", "E", "J", "E", "C", "T">>
REJECT_DROP == <<"R", "E", "J", "E", "C", "T", "-", "D", "R", "O", "P">>

\* 地区元数据 (lines 514-579), in key order: Object.entries yields the keys in
\* insertion order.
countriesMeta == <<
    \* 香港
    [country |-> <<"U+9999", "U+6E2F">>,
     pattern |-> <<"U+9999", "U+6E2F", "|", "U+6E2F", "|", "H", "K", "|", "h", "k", "|", "H", "o", "n", "g", " ", "K", "o", "n", "g", "|", "H", "o", "n", "g", "K", "o", "n", "g", "|", "h", "o", "n", "g", "k", "o", "n", "g", "|", "U+1F1ED", "U+1F1F0">>,
     icon |-> "https://gcore.jsdelivr.net/gh/Koolson/Qure@master/IconSet/Color/Hong_Kong.png"],
    \* 澳门
    [country |-> <<"U+6FB3", "U+95E8">>,
     pattern |-> <<"U+6FB3", "U+95E8", "|", "M", "O", "|", "M", "a", "c", "a", "u", "|", "U+1F1F2", "U+1F1F4">>,
     icon |-> "https://gcore.jsdelivr.net/gh/Koolson/Qure@master/IconSet/Color/Macao.png"],
    \* 台湾
    [country |-> <<"U+53F0", "U+6E7E">>,
     pattern |-> <<"U+53F0", "|", "U+65B0", "U+5317", "|", "U+5F70", "U+5316", "|", "T", "W", "|", "T", "a", "i", "w", "a", "n", "|", "U+1F1F9", "U+1F1FC">>,
     icon |-> "https://gcore.jsdelivr.net/gh/Koolson/Qure@master/IconSet/Color/Taiwan.png"],
    \* 新加坡
    [country |-> <<"U+65B0", "U+52A0", "U+5761">>,
     pattern |-> <<"U+65B0", "U+52A0", "U+5761", "|", "U+5761", "|", "U+72EE", "U+57CE", "|", "S", "G", "|", "S", "i", "n", "g", "a", "p", "o", "r", "e", "|", "U+1F1F8", "U+1F1EC">>,
     icon |-> "https://gcore.jsdelivr.net/gh/Koolson/Qure@master/IconSet/Color/Singapore.png"],
    \* 日本
    [country |-> <<"U+65E5", "U+672C">>,
     pattern |-> <<"U+65E5", "U+672C", "|", "U+5DDD", "U+65E5", "|", "U+4E1C", "U+4EAC", "|", "U+5927", "U+962A", "|", "U+6CC9", "U+65E5", "|", "U+57FC", "U+7389", "|", "U+6CAA", "U+65E5", "|", "U+6DF1", "U+65E5", "|", "J", "P", "|", "J", "a", "p", "a", "n", "|", "U+1F1EF", "U+1F1F5">>,
     icon |-> "https://gcore.jsdelivr.net/gh/Koolson/Qure@master/IconSet/Color/Japan.png"],
    \* 韩国
    [country |-> <<"U+97E9", "U+56FD">>,
     pattern |-> <<"K", "R", "|", "K", "o", "r", "e", "a", "|", "K", "O", "R", "|", "U+9996", "U+5C14", "|", "U+97E9", "|", "U+97D3", "|", "U+1F1F0", "U+1F1F7">>,
     icon |-> "https://gcore.jsdelivr.net/gh/Koolson/Qure@master/IconSet/Color/Korea.png"],
    \* 美国
    [country |-> <<"U+7F8E", "U+56FD">>,
     pattern |-> <<"U+7F8E", "U+56FD", "|", "U+7F8E", "|", "U", "S", "|", "U", "n", "i", "t", "e", "d", " ", "S", "t", "a", "t", "e", "s", "|", "U+1F1FA", "U+1F1F8">>,
     icon |-> "https://gcore.jsdelivr.net/gh/Koolson/Qure@master/IconSet/Color/United_States.png"],
    \* 加拿大
    [country |-> <<"U+52A0", "U+62FF", "U+5927">>,
     pattern |-> <<"U+52A0", "U+62FF", "U+5927", "|", "C", "a", "n", "a", "d", "a", "|", "C", "A", "|", "U+1F1E8", "U+1F1E6">>,
     icon |-> "https://gcore.jsdelivr.net/gh/Koolson/Qure@master/IconSet/Color/Canada.png"],
    \* 英国
    [country |-> <<"U+82F1", "U+56FD">>,
     pattern |-> <<"U+82F1", "U+56FD", "|", "U", "n", "i", "t", "e", "d", " ", "K", "i", "n", "g", "d", "o", "m", "|", "U", "K", "|", "U+4F26", "U+6566", "|", "L", "o", "n", "d", "o", "n", "|", "U+1F1EC", "U+1F1E7">>,
     icon |-> "https://gcore.jsdelivr.net/gh/Koolson/Qure@master/IconSet/Color/United_Kingdom.png"],
    \* 澳大利亚
    [country |-> <<"U+6FB3", "U+5927", "U+5229", "U+4E9A">>,
     pattern |-> <<"U+6FB3", "U+6D32", "|", "U+6FB3", "U+5927", "U+5229", "U+4E9A", "|", "A", "U", "|", "A", "u", "s", "t", "r", "a", "l", "i", "a", "|", "U+1F1E6", "U+1F1FA">>,
     icon |-> "https://gcore.jsdelivr.net/gh/Koolson/Qure@master/IconSet/Color/Australia.png"],
    \* 德国
    [country |-> <<"U+5FB7", "U+56FD">>,
     pattern |-> <<"U+5FB7", "U+56FD", "|", "U+5FB7", "|", "D", "E", "|", "G", "e", "r", "m", "a", "n", "y", "|", "U+1F1E9", "U+1F1EA">>,
     icon |-> "https://gcore.jsdelivr.net/gh/Koolson/Qure@master/IconSet/Color/Germany.png"],
    \* 法国
    [country |-> <<"U+6CD5", "U+56FD">>,
     pattern |-> <<"U+6CD5", "U+56FD", "|", "U+6CD5", "|", "F", "R", "|", "F", "r", "a", "n", "c", "e", "|", "U+1F1EB", "U+1F1F7">>,
     icon |-> "https://gcore.jsdelivr.net/gh/Koolson/Qure@master/IconSet/Color/France.png"],
    \* 俄罗斯
    [country |-> <<"U+4FC4", "U+7F57", "U+65AF">>,
     pattern |-> <<"U+4FC4", "U+7F57", "U+65AF", "|", "U+4FC4", "|", "R", "U", "|", "R", "u", "s", "s", "i", "a", "|", "U+1F1F7", "U+1F1FA">>,
     icon |-> "https://gcore.jsdelivr.net/gh/Koolson/Qure@master/IconSet/Color/Russia.png"],
    \* 泰国
    [country |-> <<"U+6CF0", "U+56FD">>,
     pattern |-> <<"U+6CF0", "U+56FD", "|", "U+6CF0", "|", "T", "H", "|", "T", "h", "a", "i", "l", "a", "n", "d", "|", "U+1F1F9", "U+1F1ED">>,
     icon |-> "https://gcore.jsdelivr.net/gh/Koolson/Qure@master/IconSet/Color/Thailand.png"],
    \* 印度
    [country |-> <<"U+5370", "U+5EA6">>,
     pattern |-> <<"U+5370", "U+5EA6", "|", "I", "N", "|", "I", "n", "d", "i", "a", "|", "U+1F1EE", "U+1F1F3">>,
     icon |-> "https://gcore.jsdelivr.net/gh/Koolson/Qure@master/IconSet/Color/India.png"],
    \* 马来西亚
    [country |-> <<"U+9A6C", "U+6765", "U+897F", "U+4E9A">>,
     pattern |-> <<"U+9A6C", "U+6765", "U+897F", "U+4E9A", "|", "U+9A6C", "U+6765", "|", "M", "Y", "|", "M", "a", "l", "a", "y", "s", "i", "a", "|", "U+1F1F2", "U+1F1FE">>,
     icon |-> "https://gcore.jsdelivr.net/gh/Koolson/Qure@master/IconSet/Color/Malaysia.png"]
  >>

\* the value of the name key of proxy: absent keys read as undefined
Undefined == <<"u", "n", "d", "e", "f", "i", "n", "e", "d">>

-----------------------------------------------------------------------------
(* The classifier: hasLowCost and parseCountries. *)

\* config.proxies || []
ProxiesOf(cfg) == IF cfg.hasProxies THEN cfg.proxies ELSE <<>>

\* /0\.[0-5]|低倍率|省流|大流量|实验性/i
lowCostRegex == RegExp(<<"0", "\\", ".", "[", "0", "-", "5", "]", "|", "U+4F4E", "U+500D", "U+7387", "|", "U+7701", "U+6D41", "|", "U+5927", "U+6D41", "U+91CF", "|", "U+5B9E", "U+9A8C", "U+6027">>, TRUE)

\* /家宽|家庭|家庭宽带|商宽|商业宽带|星链|Starlink|落地/i
ispRegex == RegExp(<<"U+5BB6", "U+5BBD", "|", "U+5BB6", "U+5EAD", "|", "U+5BB6", "U+5EAD", "U+5BBD", "U+5E26", "|", "U+5546", "U+5BBD", "|", "U+5546", "U+4E1A", "U+5BBD", "U+5E26", "|", "U+661F", "U+94FE", "|", "S", "t", "a", "r", "l", "i", "n", "k", "|", "U+843D", "U+5730">>, TRUE)

\* RegExp.prototype.test converts its argument to a string: a proxy without a
\* name is tested as the text "undefined".
TestedName(proxy) == IF proxy.hasName THEN proxy.name ELSE Undefined

\* some() skips ISP-matching proxies: a bug hasLowCost does not have
hasLowCostSkippingIsp(cfg) ==
    \E i \in DOMAIN ProxiesOf(cfg) :
        /\ ~Test(ispRegex, TestedName(ProxiesOf(cfg)[i]))
        /\ Test(lowCostRegex, TestedName(ProxiesOf(cfg)[i]))

hasLowCost(cfg) ==
    \E i \in DOMAIN ProxiesOf(cfg) : Test(lowCostRegex, TestedName(ProxiesOf(cfg)[i]))

\* compiledRegex, lines 594-598: one case-sensitive expression per region, in
\* catalog order
compiledRegex ==
    [k \in DOMAIN countriesMeta |->
        [country |-> countriesMeta[k].country,
         regex |-> RegExp(StripCaseInsensitivePrefix(countriesMeta[k].pattern), FALSE)]]

\* proxy.name || ''
NameOf(proxy) == IF proxy.hasName /\ proxy.name # <<>> THEN proxy.name ELSE <<>>

\* countryCounts[country] = (countryCounts[country] || 0) + 1, on an object
\* whose keys keep their insertion order
Increment(counts, country) ==
    IF \E i \in DOMAIN counts : counts[i].country = country
    THEN [i \in DOMAIN counts |->
            IF counts[i].country = country
            THEN [counts[i] EXCEPT !.count = @ + 1]
            ELSE counts[i]]
    ELSE Append(counts, [country |-> country, count |-> 1])

\* the inner loop without its break: every matching region is counted
RECURSIVE CountRegionNoBreak(_, _, _)
CountRegionNoBreak(counts, name, k) ==
    IF k > Len(compiledRegex) THEN counts
    ELSE IF Test(compiledRegex[k].regex, name)
         THEN CountRegionNoBreak(Increment(counts, compiledRegex[k].country), name, k + 1)
         ELSE CountRegionNoBreak(counts, name, k + 1)

\* lines 608-613, from catalog position k on: the first matching region is
\* counted and the loop ends
RECURSIVE CountRegion(_, _, _)
CountRegion(counts, name, k) ==
    IF k > Len(compiledRegex) THEN counts
    ELSE IF Test(compiledRegex[k].regex, name)
         THEN Increment(counts, compiledRegex[k].country)
         ELSE CountRegion(counts, name, k + 1)

\* the loop body without the ISP test of line 605
CountProxyIgnoringIsp(counts, proxy) == CountRegion(counts, NameOf(proxy), 1)

\* lines 602-613: one round of the loop over the proxies
CountProxy(counts, proxy) ==
    IF Test(ispRegex, NameOf(proxy)) THEN counts
    ELSE CountRegion(counts, NameOf(proxy), 1)

RECURSIVE CountAll(_, _)
CountAll(counts, proxies) ==
    IF proxies = <<>> THEN counts
    ELSE CountAll(CountProxy(counts, Head(proxies)), Tail(proxies))

\* lines 586-623: the [country, count] entries in the order the regions were
\* first counted
parseCountries(cfg) == CountAll(<<>>, ProxiesOf(cfg))

-----------------------------------------------------------------------------
(* The script arguments and the feature flags. *)

\* A value of $arguments: undefined (the key is absent), null, a boolean, a
\* string or a number.  Numbers are integers.
Absent == [type |-> "undefined", bool |-> FALSE, text |-> <<>>, num |-> 0]
JsNull == [type |-> "null", bool |-> FALSE, text |-> <<>>, num |-> 0]
Bool(b) == [type |-> "boolean", bool |-> b, text |-> <<>>, num |-> 0]
Text(s) == [type |-> "string", bool |-> FALSE, text |-> s, num |-> 0]
Num(n) == [type |-> "number", bool |-> FALSE, text |-> <<>>, num |-> n]

\* the decimal digits of n >= 0
RECURSIVE DigitsOf(_)
DigitsOf(n) ==
    IF n < 10 THEN <<Digits[n + 1]>>
    ELSE Append(DigitsOf(n \div 10), Digits[(n % 10) + 1])

\* String(n) for an integer n
DecimalText(n) == IF n < 0 THEN <<"-">> \o DigitsOf(-n) ELSE DigitsOf(n)

\* String(value), the conversion parseInt applies to its argument
ToText(value) ==
    IF value.type = "string" THEN value.text
    ELSE IF value.type = "number" THEN DecimalText(value.num)
    ELSE IF value.type = "boolean" THEN (IF value.bool THEN <<"t", "r", "u", "e">> ELSE <<"f", "a", "l", "s", "e">>)
    ELSE IF value.type = "null" THEN <<"n", "u", "l", "l">>
    ELSE <<"u", "n", "d", "e", "f", "i", "n", "e", "d">>

\* lines 18-24
parseBool(value) ==
    IF value.type = "boolean" THEN value.bool
    ELSE IF value.type = "string"
         THEN FoldText(value.text) = <<"t", "r", "u", "e">> \/ value.text = <<"1">>
         ELSE FALSE

\* the text without its leading white space
RECURSIVE TrimStart(_)
TrimStart(s) == IF s # <<>> /\ Head(s) = " " THEN TrimStart(Tail(s)) ELSE s

\* the value of the longest prefix of decimal digits of s, after acc; digits
\* counts the digits read
RECURSIVE ReadDigits(_, _, _)
ReadDigits(s, acc, digits) ==
    IF s # <<>> /\ IndexOf(Digits, Head(s)) > 0
    THEN ReadDigits(Tail(s), acc * 10 + IndexOf(Digits, Head(s)) - 1, digits + 1)
    ELSE [value |-> acc, digits |-> digits]

\* parseInt(text, 10): white space, a sign, then digits up to the first
\* character that is none; NaN when there is no digit
ParseInt(text) ==
    LET s == TrimStart(text)
        negative == s # <<>> /\ Head(s) = "-"
        signed == s # <<>> /\ Head(s) \in {"-", "+"}
        read == ReadDigits(IF signed THEN Tail(s) ELSE s, 0, 0)
    IN [nan |-> read.digits = 0,
        value |-> IF negative THEN -read.value ELSE read.value]

\* lines 26-32
parseNumber(value, defaultValue) ==
    IF value.type \in {"null", "undefined"} THEN defaultValue
    ELSE IF ParseInt(ToText(value)).nan THEN defaultValue
         ELSE ParseInt(ToText(value)).value

\* lines 43-63: args holds the value of every key, Absent for a missing one
buildFeatureFlags(args) ==
    [loadBalance      |-> parseBool(args.loadbalance) \/ FALSE,
     landing          |-> parseBool(args.landing) \/ FALSE,
     ipv6Enabled      |-> parseBool(args.ipv6) \/ FALSE,
     fullConfig       |-> parseBool(args.full) \/ FALSE,
     keepAliveEnabled |-> parseBool(args.keepalive) \/ FALSE,
     fakeIPEnabled    |-> parseBool(args.fakeip) \/ FALSE,
     quicEnabled      |-> parseBool(args.quic) \/ FALSE,
     countryThreshold |-> parseNumber(args.threshold, 0)]

\* typeof $arguments === 'undefined': {}
NoArguments ==
    [loadbalance |-> Absent, landing |-> Absent, ipv6 |-> Absent, full |-> Absent,
     keepalive |-> Absent, fakeip |-> Absent, quic |-> Absent, threshold |-> Absent]

\* the flags before the module has loaded
NoFlags ==
    [loadBalance |-> FALSE, landing |-> FALSE, ipv6Enabled |-> FALSE,
     fullConfig |-> FALSE, keepAliveEnabled |-> FALSE, fakeIPEnabled |-> FALSE,
     quicEnabled |-> FALSE, countryThreshold |-> 0]

-----------------------------------------------------------------------------
(* Region names and the four base lists. *)

\* the filter of line 79 with > in place of >=
getCountryGroupNamesStrict(info, minCount) ==
    LET Keep(item) == item.count > minCount
        kept == SelectSeq(info, Keep)
    IN [i \in DOMAIN kept |-> kept[i].country \o NODE_SUFFIX]

\* lines 77-81
getCountryGroupNames(info, minCount) ==
    LET Keep(item) == item.count >= minCount
        kept == SelectSeq(info, Keep)
    IN [i \in DOMAIN kept |-> kept[i].country \o NODE_SUFFIX]

\* name.replace(/节点$/, ''), lines 83-86
stripNodeSuffix(groupNames) ==
    [i \in DOMAIN groupNames |->
        IF EndsWith(groupNames[i], NODE_SUFFIX)
        THEN SubSeq(groupNames[i], 1, Len(groupNames[i]) - Len(NODE_SUFFIX))
        ELSE groupNames[i]]

\* The arguments of buildList: a string, an array of strings, or false.
Str(s) == [tag |-> "string", val |-> s, items |-> <<>>]
Arr(a) == [tag |-> "array", val |-> <<>>, items |-> a]
False == [tag |-> "false", val |-> <<>>, items |-> <<>>]

\* cond && name
And(cond, name) == IF cond THEN Str(name) ELSE False

\* elements.flat(): the members of an array argument take its place
RECURSIVE Flat(_)
Flat(elements) ==
    IF elements = <<>> THEN <<>>
    ELSE (IF Head(elements).tag = "array"
          THEN [i \in DOMAIN Head(elements).items |-> Str(Head(elements).items[i])]
          ELSE <<Head(elements)>>) \o Flat(Tail(elements))

\* Boolean(x): false and the empty string are falsy
Truthy(element) == element.tag = "string" /\ element.val # <<>>

\* buildList without filter(Boolean): a false element stays, as an empty entry
buildListKeepingFalsy(elements) ==
    LET kept == Flat(elements)
    IN [i \in DOMAIN kept |-> kept[i].val]

\* line 98: elements.flat().filter(Boolean), as the list of the strings kept
buildList(elements) ==
    LET kept == SelectSeq(Flat(elements), Truthy)
    IN [i \in DOMAIN kept |-> kept[i].val]

\* buildBaseLists with the 直连 hub in the place of the DIRECT terminal of the
\* top-level selector list
buildBaseListsHubDirect(landing, lowCostFlag, names) ==
    [defaultSelector |->
        buildList(<<Str(PROXY_GROUPS.FALLBACK), And(landing, PROXY_GROUPS.LANDING),
                    Arr(names), And(lowCostFlag, PROXY_GROUPS.LOW_COST),
                    Str(PROXY_GROUPS.MANUAL), Str(PROXY_GROUPS.DIRECT)>>),
     defaultProxies |->
        buildList(<<Str(PROXY_GROUPS.SELECT), Arr(names),
                    And(lowCostFlag, PROXY_GROUPS.LOW_COST),
                    Str(PROXY_GROUPS.MANUAL), Str(PROXY_GROUPS.DIRECT)>>),
     defaultProxiesDirect |->
        buildList(<<Str(PROXY_GROUPS.DIRECT), Arr(names),
                    And(lowCostFlag, PROXY_GROUPS.LOW_COST),
                    Str(PROXY_GROUPS.SELECT), Str(PROXY_GROUPS.MANUAL)>>),
     defaultFallback |->
        buildList(<<And(landing, PROXY_GROUPS.LANDING), Arr(names),
                    And(lowCostFlag, PROXY_GROUPS.LOW_COST),
                    Str(PROXY_GROUPS.MANUAL), Str(DIRECT)>>)]

\* lines 100-146
buildBaseLists(landing, lowCostFlag, names) ==
    [defaultSelector |->
        buildList(<<Str(PROXY_GROUPS.FALLBACK), And(landing, PROXY_GROUPS.LANDING),
                    Arr(names), And(lowCostFlag, PROXY_GROUPS.LOW_COST),
                    Str(PROXY_GROUPS.MANUAL), Str(DIRECT)>>),
     defaultProxies |->
        buildList(<<Str(PROXY_GROUPS.SELECT), Arr(names),
                    And(lowCostFlag, PROXY_GROUPS.LOW_COST),
                    Str(PROXY_GROUPS.MANUAL), Str(PROXY_GROUPS.DIRECT)>>),
     defaultProxiesDirect |->
        buildList(<<Str(PROXY_GROUPS.DIRECT), Arr(names),
                    And(lowCostFlag, PROXY_GROUPS.LOW_COST),
                    Str(PROXY_GROUPS.SELECT), Str(PROXY_GROUPS.MANUAL)>>),
     defaultFallback |->
        buildList(<<And(landing, PROXY_GROUPS.LANDING), Arr(names),
                    And(lowCostFlag, PROXY_GROUPS.LOW_COST),
                    Str(PROXY_GROUPS.MANUAL), Str(DIRECT)>>)]

-----------------------------------------------------------------------------
(* The region pools. *)

\* '0\\.[0-5]|低倍率|省流|大流量|实验性'
baseExcludeFilter == <<"0", "\\", ".", "[", "0", "-", "5", "]", "|", "U+4F4E", "U+500D", "U+7387", "|", "U+7701", "U+6D41", "|", "U+5927", "U+6D41", "U+91CF", "|", "U+5B9E", "U+9A8C", "U+6027">>

\* '(?i)家宽|家庭|家庭宽带|商宽|商业宽带|星链|Starlink|落地'
landingExcludeFilter == <<"(", "?", "i", ")", "U+5BB6", "U+5BBD", "|", "U+5BB6", "U+5EAD", "|", "U+5BB6", "U+5EAD", "U+5BBD", "U+5E26", "|", "U+5546", "U+5BBD", "|", "U+5546", "U+4E1A", "U+5BBD", "U+5E26", "|", "U+661F", "U+94FE", "|", "S", "t", "a", "r", "l", "i", "n", "k", "|", "U+843D", "U+5730">>

\* countriesMeta[country]: the position of the key, 0 when it is no key
MetaIndex(country) ==
    IF \E k \in DOMAIN countriesMeta : countriesMeta[k].country = country
    THEN CHOOSE k \in DOMAIN countriesMeta : countriesMeta[k].country = country
    ELSE 0

\* the four url-test keys of lines 648-653
UrlTestFields(group) ==
    [k \in DOMAIN group \cup {"url", "interval", "tolerance", "lazy"} |->
        IF k = "url" THEN "https://cp.cloudflare.com/generate_204"
        ELSE IF k = "interval" THEN 60
        ELSE IF k = "tolerance" THEN 20
        ELSE IF k = "lazy" THEN FALSE
        ELSE group[k]]

\* the exclude-filter without the landing keywords, whatever the landing flag
ExcludeFilterBaseOnly(landing) == baseExcludeFilter

\* lines 641-643
ExcludeFilter(landing) ==
    IF landing THEN landingExcludeFilter \o <<"|">> \o baseExcludeFilter
    ELSE baseExcludeFilter

\* the pool with the url-test keys assigned whatever the loadBalance flag
groupConfigAlwaysUrlTest(country, landing, loadBalance) ==
    UrlTestFields(
        [name |-> country \o NODE_SUFFIX,
         icon |-> countriesMeta[MetaIndex(country)].icon,
         include_all |-> TRUE,
         filter |-> countriesMeta[MetaIndex(country)].pattern,
         exclude_filter |-> ExcludeFilter(landing),
         type |-> IF loadBalance THEN "load-balance" ELSE "url-test"])

\* lines 636-654: the pool of one region
groupConfig(country, landing, loadBalance) ==
    LET base == [name |-> country \o NODE_SUFFIX,
                 icon |-> countriesMeta[MetaIndex(country)].icon,
                 include_all |-> TRUE,
                 filter |-> countriesMeta[MetaIndex(country)].pattern,
                 exclude_filter |-> ExcludeFilter(landing),
                 type |-> IF loadBalance THEN "load-balance" ELSE "url-test"]
    IN IF ~loadBalance THEN UrlTestFields(base) ELSE base

\* lines 625-660
RECURSIVE buildCountryProxyGroups(_, _, _)
buildCountryProxyGroups(cs, landing, loadBalance) ==
    IF cs = <<>> THEN <<>>
    ELSE (IF MetaIndex(Head(cs)) = 0 THEN <<>>
          ELSE <<groupConfig(Head(cs), landing, loadBalance)>>)
         \o buildCountryProxyGroups(Tail(cs), landing, loadBalance)

-----------------------------------------------------------------------------
(* The group graph. *)

\* the null of a disabled entry of the array literal of lines 685-910
Null == [isNull |-> TRUE]

\* Boolean(x) on an entry of that array
NotNull(entry) == "isNull" \notin DOMAIN entry

\* includes answering true for a region that is not among the countries
IncludesUnchecked(seq, x) == TRUE

\* countries.includes(country)
Includes(seq, x) == \E i \in DOMAIN seq : seq[i] = x

\* the filter of lines 679-682 removing the landing hub only
frontProxySelectorKeepingFallback(landing, defaultSelector) ==
    IF landing
    THEN LET Keep(name) == name # PROXY_GROUPS.LANDING
         IN SelectSeq(defaultSelector, Keep)
    ELSE <<>>

\* lines 678-683
frontProxySelector(landing, defaultSelector) ==
    IF landing
    THEN LET Keep(name) == name # PROXY_GROUPS.LANDING /\ name # PROXY_GROUPS.FALLBACK
         IN SelectSeq(defaultSelector, Keep)
    ELSE <<>>

\* lines 662-911; l is the record of the four base lists
buildProxyGroups(landing, cs, cpg, lowCostFlag, l) ==
    LET hasTW == Includes(cs, <<"U+53F0", "U+6E7E">>)
        hasHK == Includes(cs, <<"U+9999", "U+6E2F">>)
        hasUS == Includes(cs, <<"U+7F8E", "U+56FD">>)
        entries ==
        \* PROXY_GROUPS.SELECT
        <<[name |-> PROXY_GROUPS.SELECT,
           icon |-> "https://gcore.jsdelivr.net/gh/Koolson/Qure@master/IconSet/Color/Proxy.png",
           type |-> "select",
           proxies |-> l.defaultSelector]>> \o
        \* PROXY_GROUPS.MANUAL
        <<[name |-> PROXY_GROUPS.MANUAL,
           icon |-> "https://gcore.jsdelivr.net/gh/shindgewongxj/WHATSINStash@master/icon/select.png",
           include_all |-> TRUE,
           type |-> "select"]>> \o
        \* 前置代理
        <<IF landing
          THEN [name |-> <<"U+524D", "U+7F6E", "U+4EE3", "U+7406">>,
               icon |-> "https://gcore.jsdelivr.net/gh/Koolson/Qure@master/IconSet/Color/Area.png",
               include_all |-> TRUE,
               exclude_filter |-> <<"(", "?", "i", ")", "U+5BB6", "U+5BBD", "|", "U+5BB6", "U+5EAD", "|", "U+5BB6", "U+5EAD", "U+5BBD", "U+5E26", "|", "U+5546", "U+5BBD", "|", "U+5546", "U+4E1A", "U+5BBD", "U+5E26", "|", "U+661F", "U+94FE", "|", "S", "t", "a", "r", "l", "i", "n", "k", "|", "U+843D", "U+5730">>,
               type |-> "select",
               proxies |-> frontProxySelector(landing, l.defaultSelector)]
          ELSE Null>> \o
        \* PROXY_GROUPS.LANDING
        <<IF landing
          THEN [name |-> PROXY_GROUPS.LANDING,
               icon |-> "https://gcore.jsdelivr.net/gh/Koolson/Qure@master/IconSet/Color/Airport.png",
               include_all |-> TRUE,
               filter |-> <<"(", "?", "i", ")", "U+5BB6", "U+5BBD", "|", "U+5BB6", "U+5EAD", "|", "U+5BB6", "U+5EAD", "U+5BBD", "U+5E26", "|", "U+5546", "U+5BBD", "|", "U+5546", "U+4E1A", "U+5BBD", "U+5E26", "|", "U+661F", "U+94FE", "|", "S", "t", "a", "r", "l", "i", "n", "k", "|", "U+843D", "U+5730">>,
               type |-> "select"]
          ELSE Null>> \o
        \* PROXY_GROUPS.FALLBACK
        <<[name |-> PROXY_GROUPS.FALLBACK,
           icon |-> "https://gcore.jsdelivr.net/gh/Koolson/Qure@master/IconSet/Color/Bypass.png",
           type |-> "fallback",
           url |-> "https://cp.cloudflare.com/generate_204",
           proxies |-> l.defaultFallback,
           interval |-> 180,
           tolerance |-> 20,
           lazy |-> FALSE]>> \o
        \* 🔒 私有网络
        <<[name |-> <<"U+1F512", " ", "U+79C1", "U+6709", "U+7F51", "U+7EDC">>,
           icon |-> "https://gcore.jsdelivr.net/gh/Koolson/Qure@master/IconSet/Color/Private.png",
           type |-> "select",
           proxies |-> <<PROXY_GROUPS.DIRECT>>]>> \o
        \* 🛑 广告域名
        <<[name |-> <<"U+1F6D1", " ", "U+5E7F", "U+544A", "U+57DF", "U+540D">>,
           icon |-> "https://gcore.jsdelivr.net/gh/Koolson/Qure@master/IconSet/Color/AdBlack.png",
           type |-> "select",
           proxies |-> <<REJECT, REJECT_DROP, PROXY_GROUPS.DIRECT>>]>> \o
        \* 📋 Trackerslist
        <<[name |-> <<"U+1F4CB", " ", "T", "r", "a", "c", "k", "e", "r", "s", "l", "i", "s", "t">>,
           icon |-> "https://gcore.jsdelivr.net/gh/Koolson/Qure@master/IconSet/Color/AdBlack.png",
           type |-> "select",
           proxies |-> <<REJECT, REJECT_DROP, PROXY_GROUPS.DIRECT>>]>> \o
        \* ⬇️ 直连软件
        <<[name |-> <<"U+2B07", "U+FE0F", " ", "U+76F4", "U+8FDE", "U+8F6F", "U+4EF6">>,
           icon |-> "https://gcore.jsdelivr.net/gh/Koolson/Qure@master/IconSet/Color/Terminal.png",
           type |-> "select",
           proxies |-> <<PROXY_GROUPS.DIRECT>>]>> \o
        \* 🪟 微软服务
        <<[name |-> <<"U+1FA9F", " ", "U+5FAE", "U+8F6F", "U+670D", "U+52A1">>,
           icon |-> "https://gcore.jsdelivr.net/gh/hazicy/override-rules@master/icons/Microsoft_Copilot.png",
           type |-> "select",
           proxies |-> l.defaultProxiesDirect]>> \o
        \* 🍎 苹果服务
        <<[name |-> <<"U+1F34E", " ", "U+82F9", "U+679C", "U+670D", "U+52A1">>,
           icon |-> "https://gcore.jsdelivr.net/gh/Koolson/Qure@master/IconSet/Color/Apple.png",
           type |-> "select",
           proxies |-> l.defaultProxiesDirect]>> \o
        \* 🇬 谷歌服务
        <<[name |-> <<"U+1F1EC", " ", "U+8C37", "U+6B4C", "U+670D", "U+52A1">>,
           icon |-> "https://gcore.jsdelivr.net/gh/hazicy/override-rules@master/icons/Google.png",
           type |-> "select",
           proxies |-> l.defaultProxiesDirect]>> \o
        \* 🎮 游戏服务
        <<[name |-> <<"U+1F3AE", " ", "U+6E38", "U+620F", "U+670D", "U+52A1">>,
           icon |-> "https://gcore.jsdelivr.net/gh/Koolson/Qure@master/IconSet/Color/Game.png",
           type |-> "select",
           proxies |-> l.defaultProxiesDirect]>> \o
        \* 🎥 奈飞视频
        <<[name |-> <<"U+1F3A5", " ", "U+5948", "U+98DE", "U+89C6", "U+9891">>,
           icon |-> "https://gcore.jsdelivr.net/gh/Koolson/Qure@master/IconSet/Color/Netflix.png",
           type |-> "select",
           proxies |-> l.defaultProxies]>> \o
        \* 📽️ 迪士尼+
        <<[name |-> <<"U+1F4FD", "U+FE0F", " ", "U+8FEA", "U+58EB", "U+5C3C", "+">>,
           icon |-> "https://gcore.jsdelivr.net/gh/Koolson/Qure@master/IconSet/Color/Disney.png",
           type |-> "select",
           proxies |-> l.defaultProxies]>> \o
        \* 🎞️ Max
        <<[name |-> <<"U+1F39E", "U+FE0F", " ", "M", "a", "x">>,
           icon |-> "https://gcore.jsdelivr.net/gh/Koolson/Qure@master/IconSet/Color/HBO.png",
           type |-> "select",
           proxies |-> l.defaultProxies]>> \o
        \* 🎬 Prime Video
        <<[name |-> <<"U+1F3AC", " ", "P", "r", "i", "m", "e", " ", "V", "i", "d", "e", "o">>,
           icon |-> "https://gcore.jsdelivr.net/gh/Koolson/Qure@master/IconSet/Color/Prime.png",
           type |-> "select",
           proxies |-> l.defaultProxies]>> \o
        \* 🍎 Apple TV+
        <<[name |-> <<"U+1F34E", " ", "A", "p", "p", "l", "e", " ", "T", "V", "+">>,
           icon |-> "https://gcore.jsdelivr.net/gh/Koolson/Qure@master/IconSet/Color/Apple.png",
           type |-> "select",
           proxies |-> l.defaultProxies]>> \o
        \* 📹 油管视频
        <<[name |-> <<"U+1F4F9", " ", "U+6CB9", "U+7BA1", "U+89C6", "U+9891">>,
           icon |-> "https://gcore.jsdelivr.net/gh/Koolson/Qure@master/IconSet/Color/YouTube.png",
           type |-> "select",
           proxies |-> l.defaultProxies]>> \o
        \* 🎵 TikTok
        <<[name |-> <<"U+1F3B5", " ", "T", "i", "k", "T", "o", "k">>,
           icon |-> "https://gcore.jsdelivr.net/gh/Koolson/Qure@master/IconSet/Color/TikTok.png",
           type |-> "select",
           proxies |-> l.defaultProxies]>> \o
        \* 📺 哔哩哔哩
        <<[name |-> <<"U+1F4FA", " ", "U+54D4", "U+54E9", "U+54D4", "U+54E9">>,
           icon |-> "https://gcore.jsdelivr.net/gh/Koolson/Qure@master/IconSet/Color/bilibili.png",
           type |-> "select",
           proxies |-> IF hasTW /\ hasHK
                       THEN <<PROXY_GROUPS.DIRECT, <<"U+53F0", "U+6E7E", "U+8282", "U+70B9">>, <<"U+9999", "U+6E2F", "U+8282", "U+70B9">>>>
                       ELSE l.defaultProxiesDirect]>> \o
        \* 🎶 Spotify
        <<[name |-> <<"U+1F3B6", " ", "S", "p", "o", "t", "i", "f", "y">>,
           icon |-> "https://gcore.jsdelivr.net/gh/Koolson/Qure@master/IconSet/Color/Spotify.png",
           type |-> "select",
           proxies |-> l.defaultProxies]>> \o
        \* 🌍 国外媒体
        <<[name |-> <<"U+1F30D", " ", "U+56FD", "U+5916", "U+5A92", "U+4F53">>,
           icon |-> "https://gcore.jsdelivr.net/gh/Koolson/Qure@master/IconSet/Color/GlobalMedia.png",
           type |-> "select",
           proxies |-> l.defaultProxies]>> \o
        \* 🎮 游戏平台
        <<[name |-> <<"U+1F3AE", " ", "U+6E38", "U+620F", "U+5E73", "U+53F0">>,
           icon |-> "https://gcore.jsdelivr.net/gh/Koolson/Qure@master/IconSet/Color/Game.png",
           type |-> "select",
           proxies |-> l.defaultProxies]>> \o
        \* 🤖 AI 平台
        <<[name |-> <<"U+1F916", " ", "A", "I", " ", "U+5E73", "U+53F0">>,
           icon |-> "https://gcore.jsdelivr.net/gh/hazicy/override-rules@master/icons/ChatGPT.png",
           type |-> "select",
           proxies |-> l.defaultProxies]>> \o
        \* 📈 网络测试
        <<[name |-> <<"U+1F4C8", " ", "U+7F51", "U+7EDC", "U+6D4B", "U+8BD5">>,
           icon |-> "https://gcore.jsdelivr.net/gh/Koolson/Qure@master/IconSet/Color/Speedtest.png",
           type |-> "select",
           proxies |-> l.defaultProxies]>> \o
        \* 🧱 代理顶级域名
        <<[name |-> <<"U+1F9F1", " ", "U+4EE3", "U+7406", "U+9876", "U+7EA7", "U+57DF", "U+540D">>,
           icon |-> "https://gcore.jsdelivr.net/gh/Koolson/Qure@master/IconSet/Color/Proxy.png",
           type |-> "select",
           proxies |-> l.defaultProxies]>> \o
        \* 🧱 代理域名
        <<[name |-> <<"U+1F9F1", " ", "U+4EE3", "U+7406", "U+57DF", "U+540D">>,
           icon |-> "https://gcore.jsdelivr.net/gh/Koolson/Qure@master/IconSet/Color/Proxy.png",
           type |-> "select",
           proxies |-> l.defaultProxies]>> \o
        \* 🛡️ 直连域名
        <<[name |-> <<"U+1F6E1", "U+FE0F", " ", "U+76F4", "U+8FDE", "U+57DF", "U+540D">>,
           icon |-> "https://gcore.jsdelivr.net/gh/Koolson/Qure@master/IconSet/Color/Direct.png",
           type |-> "select",
           proxies |-> <<PROXY_GROUPS.DIRECT>>]>> \o
        \* 🀄️ 直连 IP
        <<[name |-> <<"U+1F004", "U+FE0F", " ", "U+76F4", "U+8FDE", " ", "I", "P">>,
           icon |-> "https://gcore.jsdelivr.net/gh/Koolson/Qure@master/IconSet/Color/Direct.png",
           type |-> "select",
           proxies |-> <<PROXY_GROUPS.DIRECT>>]>> \o
        \* 📲 电报消息
        <<[name |-> <<"U+1F4F2", " ", "U+7535", "U+62A5", "U+6D88", "U+606F">>,
           icon |-> "https://gcore.jsdelivr.net/gh/Koolson/Qure@master/IconSet/Color/Telegram.png",
           type |-> "select",
           proxies |-> l.defaultProxies]>> \o
        \* PROXY_GROUPS.DIRECT
        <<[name |-> PROXY_GROUPS.DIRECT,
           icon |-> "https://gcore.jsdelivr.net/gh/Koolson/Qure@master/IconSet/Color/Direct.png",
           type |-> "select",
           proxies |-> <<DIRECT, PROXY_GROUPS.SELECT>>]>> \o
        \* 🐟 漏网之鱼
        <<[name |-> <<"U+1F41F", " ", "U+6F0F", "U+7F51", "U+4E4B", "U+9C7C">>,
           icon |-> "https://gcore.jsdelivr.net/gh/Koolson/Qure@master/IconSet/Color/Final.png",
           type |-> "select",
           proxies |-> l.defaultProxies]>> \o
        \* PROXY_GROUPS.LOW_COST
        <<IF lowCostFlag
          THEN [name |-> PROXY_GROUPS.LOW_COST,
               icon |-> "https://gcore.jsdelivr.net/gh/Koolson/Qure@master/IconSet/Color/Lab.png",
               include_all |-> TRUE,
               filter |-> <<"(", "?", "i", ")", "0", "\\", ".", "[", "0", "-", "5", "]", "|", "U+4F4E", "U+500D", "U+7387", "|", "U+7701", "U+6D41", "|", "U+5927", "U+6D41", "U+91CF", "|", "U+5B9E", "U+9A8C", "U+6027">>,
               type |-> "url-test",
               url |-> "https://cp.cloudflare.com/generate_204"]
          ELSE Null>> \o
        \* ...countryProxyGroups
        cpg
    IN SelectSeq(entries, NotNull)

\* proxyGroups.map((item) => item.name), line 949
NamesOf(groups) == [i \in DOMAIN groups |-> groups[i].name]

\* the map of line 949 leaving out the group built last
globalProxiesAllButLast(groups) == [i \in 1..(Len(groups) - 1) |-> groups[i].name]

\* line 949
globalProxies(groups) == NamesOf(groups)

\* the object pushed at lines 950-956
GlobalGroup(members) ==
    [name |-> <<"G", "L", "O", "B", "A", "L">>,
     icon |-> "https://gcore.jsdelivr.net/gh/Koolson/Qure@master/IconSet/Color/Global.png",
     include_all |-> TRUE,
     type |-> "select",
     proxies |-> members]

-----------------------------------------------------------------------------
(* The rule list. *)

\* the value of baseRules when the module has loaded, lines 399-431
InitialBaseRules == <<
    <<"R", "U", "L", "E", "-", "S", "E", "T", ",", "p", "r", "i", "v", "a", "t", "e", ",", "U+1F512", " ", "U+79C1", "U+6709", "U+7F51", "U+7EDC">>,
    <<"R", "U", "L", "E", "-", "S", "E", "T", ",", "a", "d", "s", ",", "U+1F6D1", " ", "U+5E7F", "U+544A", "U+57DF", "U+540D">>,
    <<"R", "U", "L", "E", "-", "S", "E", "T", ",", "t", "r", "a", "c", "k", "e", "r", "s", "l", "i", "s", "t", ",", "U+1F4CB", " ", "T", "r", "a", "c", "k", "e", "r", "s", "l", "i", "s", "t">>,
    <<"R", "U", "L", "E", "-", "S", "E", "T", ",", "a", "p", "p", "l", "i", "c", "a", "t", "i", "o", "n", "s", ",", "U+2B07", "U+FE0F", " ", "U+76F4", "U+8FDE", "U+8F6F", "U+4EF6">>,
    <<"R", "U", "L", "E", "-", "S", "E", "T", ",", "m", "i", "c", "r", "o", "s", "o", "f", "t", "-", "c", "n", ",", "U+1FA9F", " ", "U+5FAE", "U+8F6F", "U+670D", "U+52A1">>,
    <<"R", "U", "L", "E", "-", "S", "E", "T", ",", "a", "p", "p", "l", "e", "-", "c", "n", ",", "U+1F34E", " ", "U+82F9", "U+679C", "U+670D", "U+52A1">>,
    <<"R", "U", "L", "E", "-", "S", "E", "T", ",", "g", "o", "o", "g", "l", "e", "-", "c", "n", ",", "U+1F1EC", " ", "U+8C37", "U+6B4C", "U+670D", "U+52A1">>,
    <<"R", "U", "L", "E", "-", "S", "E", "T", ",", "g", "a", "m", "e", "s", "-", "c", "n", ",", "U+1F3AE", " ", "U+6E38", "U+620F", "U+670D", "U+52A1">>,
    <<"R", "U", "L", "E", "-", "S", "E", "T", ",", "n", "e", "t", "f", "l", "i", "x", ",", "U+1F3A5", " ", "U+5948", "U+98DE", "U+89C6", "U+9891">>,
    <<"R", "U", "L", "E", "-", "S", "E", "T", ",", "d", "i", "s", "n", "e", "y", ",", "U+1F4FD", "U+FE0F", " ", "U+8FEA", "U+58EB", "U+5C3C", "+">>,
    <<"R", "U", "L", "E", "-", "S", "E", "T", ",", "m", "a", "x", ",", "U+1F39E", "U+FE0F", " ", "M", "a", "x">>,
    <<"R", "U", "L", "E", "-", "S", "E", "T", ",", "p", "r", "i", "m", "e", "v", "i", "d", "e", "o", ",", "U+1F3AC", " ", "P", "r", "i", "m", "e", " ", "V", "i", "d", "e", "o">>,
    <<"R", "U", "L", "E", "-", "S", "E", "T", ",", "a", "p", "p", "l", "e", "t", "v", ",", "U+1F34E", " ", "A", "p", "p", "l", "e", " ", "T", "V", "+">>,
    <<"R", "U", "L", "E", "-", "S", "E", "T", ",", "y", "o", "u", "t", "u", "b", "e", ",", "U+1F4F9", " ", "U+6CB9", "U+7BA1", "U+89C6", "U+9891">>,
    <<"R", "U", "L", "E", "-", "S", "E", "T", ",", "t", "i", "k", "t", "o", "k", ",", "U+1F3B5", " ", "T", "i", "k", "T", "o", "k">>,
    <<"R", "U", "L", "E", "-", "S", "E", "T", ",", "b", "i", "l", "i", "b", "i", "l", "i", ",", "U+1F4FA", " ", "U+54D4", "U+54E9", "U+54D4", "U+54E9">>,
    <<"R", "U", "L", "E", "-", "S", "E", "T", ",", "s", "p", "o", "t", "i", "f", "y", ",", "U+1F3B6", " ", "S", "p", "o", "t", "i", "f", "y">>,
    <<"R", "U", "L", "E", "-", "S", "E", "T", ",", "m", "e", "d", "i", "a", ",", "U+1F30D", " ", "U+56FD", "U+5916", "U+5A92", "U+4F53">>,
    <<"R", "U", "L", "E", "-", "S", "E", "T", ",", "g", "a", "m", "e", "s", ",", "U+1F3AE", " ", "U+6E38", "U+620F", "U+5E73", "U+53F0">>,
    <<"R", "U", "L", "E", "-", "S", "E", "T", ",", "a", "i", ",", "U+1F916", " ", "A", "I", " ", "U+5E73", "U+53F0">>,
    <<"R", "U", "L", "E", "-", "S", "E", "T", ",", "n", "e", "t", "w", "o", "r", "k", "t", "e", "s", "t", ",", "U+1F4C8", " ", "U+7F51", "U+7EDC", "U+6D4B", "U+8BD5">>,
    <<"R", "U", "L", "E", "-", "S", "E", "T", ",", "t", "l", "d", "-", "p", "r", "o", "x", "y", ",", "U+1F9F1", " ", "U+4EE3", "U+7406", "U+9876", "U+7EA7", "U+57DF", "U+540D">>,
    <<"R", "U", "L", "E", "-", "S", "E", "T", ",", "g", "f", "w", ",", "U+1F9F1", " ", "U+4EE3", "U+7406", "U+57DF", "U+540D">>,
    <<"R", "U", "L", "E", "-", "S", "E", "T", ",", "c", "n", ",", "U+1F6E1", "U+FE0F", " ", "U+76F4", "U+8FDE", "U+57DF", "U+540D">>,
    <<"R", "U", "L", "E", "-", "S", "E", "T", ",", "p", "r", "i", "v", "a", "t", "e", "i", "p", ",", "U+1F512", " ", "U+79C1", "U+6709", "U+7F51", "U+7EDC", ",", "n", "o", "-", "r", "e", "s", "o", "l", "v", "e">>,
    <<"R", "U", "L", "E", "-", "S", "E", "T", ",", "c", "n", "i", "p", ",", "U+1F004", "U+FE0F", " ", "U+76F4", "U+8FDE", " ", "I", "P">>,
    <<"R", "U", "L", "E", "-", "S", "E", "T", ",", "n", "e", "t", "f", "l", "i", "x", "i", "p", ",", "U+1F3A5", " ", "U+5948", "U+98DE", "U+89C6", "U+9891">>,
    <<"R", "U", "L", "E", "-", "S", "E", "T", ",", "m", "e", "d", "i", "a", "i", "p", ",", "U+1F30D", " ", "U+56FD", "U+5916", "U+5A92", "U+4F53">>,
    <<"R", "U", "L", "E", "-", "S", "E", "T", ",", "g", "a", "m", "e", "s", "i", "p", ",", "U+1F3AE", " ", "U+6E38", "U+620F", "U+5E73", "U+53F0">>,
    <<"R", "U", "L", "E", "-", "S", "E", "T", ",", "t", "e", "l", "e", "g", "r", "a", "m", "i", "p", ",", "U+1F4F2", " ", "U+7535", "U+62A5", "U+6D88", "U+606F", ",", "n", "o", "-", "r", "e", "s", "o", "l", "v", "e">>,
    <<"M", "A", "T", "C", "H", ",", "U+1F41F", " ", "U+6F0F", "U+7F51", "U+4E4B", "U+9C7C">>
  >>

\* 'AND,((DST-PORT,443),(NETWORK,UDP)),REJECT'
QuicRejectRule == <<"A", "N", "D", ",", "(", "(", "D", "S", "T", "-", "P", "O", "R", "T", ",", "4", "4", "3", ")", ",", "(", "N", "E", "T", "W", "O", "R", "K", ",", "U", "D", "P", ")", ")", ",", "R", "E", "J", "E", "C", "T">>

\* buildRules with push in place of unshift
buildRulesAppending(base, quicEnabled) ==
    IF ~quicEnabled THEN Append(base, QuicRejectRule) ELSE base

\* lines 433-440, on the copy [...baseRules]
buildRules(base, quicEnabled) ==
    IF ~quicEnabled THEN <<QuicRejectRule>> \o base ELSE base

\* ruleList naming the table itself
ruleListAliased == "baseRules"

\* line 434, const ruleList = [...baseRules]: the array ruleList names is a new
\* one that holds the elements of the table
ruleList == "copy"

\* lines 434-438: the table once buildRules has returned; unshift acts on the
\* array ruleList names
baseRulesAfterBuildRules(base, quicEnabled) ==
    IF ruleList = "baseRules" THEN buildRules(base, quicEnabled) ELSE base

\* lines 913-992: what main returns for cfg under the flags fl with the table
\* base, as the composition of its statements
main(cfg, fl, base) ==
    LET info == parseCountries(cfg)
        low == hasLowCost(cfg)
        names == getCountryGroupNames(info, fl.countryThreshold)
        regions == stripNodeSuffix(names)
        four == buildBaseLists(fl.landing, low, names)
        pools == buildCountryProxyGroups(regions, fl.landing, fl.loadBalance)
        groups == buildProxyGroups(fl.landing, regions, pools, low, four)
    IN [proxy_groups |-> Append(groups, GlobalGroup(globalProxies(groups))),
        rules |-> buildRules(base, fl.quicEnabled)]
-----------------------------------------------------------------------------
(* The inputs drawn. *)

Named(text) == [hasName |-> TRUE, name |-> text]

\* a proxy descriptor without a name key
Nameless == [hasName |-> FALSE, name |-> <<>>]

\* The proxies main is called with: a name of one region only, a low-cost name
\* of a region, a landing name of a region written in lower case, a name
\* matching two regions, a low-cost landing name of no region, and a descriptor
\* without a name.
SampleProxies ==
    { Named(<<"H", "K", "-", "0", "1", " ", "U+9999", "U+6E2F">>),
      Named(<<"U", "S", "-", "0", "2", " ", "U+4F4E", "U+500D", "U+7387", " ", "U+7F8E", "U+56FD">>),
      Named(<<"U+7F8E", "U+56FD", " ", "s", "t", "a", "r", "l", "i", "n", "k">>),
      Named(<<"T", "W", " ", "U+7F8E", "U+56FD">>),
      Named(<<"U+843D", "U+5730", " ", "0", ".", "5", "x">>),
      Nameless }

RECURSIVE SeqsUpTo(_, _)
SeqsUpTo(S, n) ==
    IF n = 0 THEN {<<>>}
    ELSE LET shorter == SeqsUpTo(S, n - 1)
         IN shorter \cup { Append(s, x) : s \in shorter, x \in S }

\* a config without a proxies key
NoProxies == [hasProxies |-> FALSE, proxies |-> <<>>]

Configs ==
    {NoProxies} \cup
    { [hasProxies |-> TRUE, proxies |-> ps] : ps \in SeqsUpTo(SampleProxies, MaxProxies) }

\* a switch as the subscription link passes it: the text true, or nothing
Switches == {Absent, Text(<<"t", "r", "u", "e">>)}

\* a threshold as the subscription link passes it: the text of a positive
\* number, or nothing; the other forms are those of RawThresholds
Thresholds ==
    {Absent} \cup { Text(DecimalText(n)) : n \in 1..MaxThreshold }

\* the $arguments the runs of main are explored under
Arguments ==
    { [NoArguments EXCEPT !.loadbalance = lb, !.landing = ld, !.quic = q, !.threshold = th] :
        lb \in Switches, ld \in Switches, q \in Switches, th \in Thresholds }

\* every form a switch can arrive in
RawSwitches ==
    {Absent, JsNull, Bool(TRUE), Bool(FALSE), Num(1),
     Text(<<"t", "r", "u", "e">>), Text(<<"T", "R", "U", "E">>), Text(<<"1">>), Text(<<"f", "a", "l", "s", "e">>), Text(<<"y", "e", "s">>)}

\* every form a threshold can arrive in: nothing, null, the text of a number,
\* text that starts with no number, text that starts with one, a number, a boolean
RawThresholds ==
    {Absent, JsNull, Bool(TRUE), Text(<<>>), Text(<<"a", "b", "c">>), Text(<<" ", "2">>), Text(<<"1", "x">>),
     Text(<<"+", "1">>)}
    \cup { Text(DecimalText(n)) : n \in -1..MaxThreshold }
    \cup { Num(n) : n \in -1..MaxThreshold }

\* the $arguments the module load alone is explored under
RawArguments ==
    { [NoArguments EXCEPT !.landing = ld, !.threshold = th] :
        ld \in RawSwitches, th \in RawThresholds }

NoLists ==
    [defaultSelector |-> <<>>, defaultProxies |-> <<>>,
     defaultProxiesDirect |-> <<>>, defaultFallback |-> <<>>]

-----------------------------------------------------------------------------
(* The state machine: the module loads, then main runs statement by        *)
(* statement, any number of times.                                         *)

\* the locals of main before it is entered
NoRun ==
    /\ config = NoProxies
    /\ countryInfo = <<>>
    /\ lowCost = FALSE
    /\ countryGroupNames = <<>>
    /\ countries = <<>>
    /\ lists = NoLists
    /\ countryProxyGroups = <<>>
    /\ proxyGroups = <<>>
    /\ finalRules = <<>>

\* the script is about to be evaluated with the arguments args
Loading(args) ==
    /\ rawArgs = args
    /\ flags = NoFlags
    /\ baseRules = InitialBaseRules
    /\ pc = "load"
    /\ NoRun

Init == \E args \in Arguments : Loading(args)

\* lines 65-75: the module loads and the flags are set
Load ==
    /\ pc = "load"
    /\ flags' = buildFeatureFlags(rawArgs)
    /\ pc' = "idle"
    /\ UNCHANGED <<rawArgs, baseRules, config, countryInfo, lowCost, countryGroupNames,
                   countries, lists, countryProxyGroups, proxyGroups, finalRules>>

\* main(config) is entered: line 914
Call ==
    /\ pc = "idle"
    /\ \E cfg \in Configs : config' = cfg
    /\ pc' = "parseCountries"
    /\ UNCHANGED <<rawArgs, flags, baseRules, countryInfo, lowCost, countryGroupNames, countries,
                   lists, countryProxyGroups, proxyGroups, finalRules>>

\* line 916
ParseCountries ==
    /\ pc = "parseCountries"
    /\ countryInfo' = parseCountries(config)
    /\ pc' = "hasLowCost"
    /\ UNCHANGED <<rawArgs, flags, baseRules, config, lowCost, countryGroupNames, countries,
                   lists, countryProxyGroups, proxyGroups, finalRules>>

\* line 917
HasLowCost ==
    /\ pc = "hasLowCost"
    /\ lowCost' = hasLowCost(config)
    /\ pc' = "getCountryGroupNames"
    /\ UNCHANGED <<rawArgs, flags, baseRules, config, countryInfo, countryGroupNames, countries,
                   lists, countryProxyGroups, proxyGroups, finalRules>>

\* lines 918-919
GetCountryGroupNames ==
    /\ pc = "getCountryGroupNames"
    /\ countryGroupNames' = getCountryGroupNames(countryInfo, flags.countryThreshold)
    /\ countries' = stripNodeSuffix(countryGroupNames')
    /\ pc' = "buildBaseLists"
    /\ UNCHANGED <<rawArgs, flags, baseRules, config, countryInfo, lowCost,
                   lists, countryProxyGroups, proxyGroups, finalRules>>

\* lines 922-927
BuildBaseLists ==
    /\ pc = "buildBaseLists"
    /\ lists' = buildBaseLists(flags.landing, lowCost, countryGroupNames)
    /\ pc' = "buildCountryProxyGroups"
    /\ UNCHANGED <<rawArgs, flags, baseRules, config, countryInfo, lowCost, countryGroupNames,
                   countries, countryProxyGroups, proxyGroups, finalRules>>

\* lines 930-934
BuildCountryProxyGroups ==
    /\ pc = "buildCountryProxyGroups"
    /\ countryProxyGroups' =
           buildCountryProxyGroups(countries, flags.landing, flags.loadBalance)
    /\ pc' = "buildProxyGroups"
    /\ UNCHANGED <<rawArgs, flags, baseRules, config, countryInfo, lowCost, countryGroupNames,
                   countries, lists, proxyGroups, finalRules>>

\* lines 937-956: the groups are built and GLOBAL is pushed
BuildProxyGroups ==
    /\ pc = "buildProxyGroups"
    /\ LET groups == buildProxyGroups(flags.landing, countries, countryProxyGroups,
                                      lowCost, lists)
       IN proxyGroups' = Append(groups, GlobalGroup(globalProxies(groups)))
    /\ pc' = "buildRules"
    /\ UNCHANGED <<rawArgs, flags, baseRules, config, countryInfo, lowCost, countryGroupNames,
                   countries, lists, countryProxyGroups, finalRules>>

\* lines 958-991: the rules are built and the result is returned
BuildRules ==
    /\ pc = "buildRules"
    /\ finalRules' = buildRules(baseRules, flags.quicEnabled)
    /\ baseRules' = baseRulesAfterBuildRules(baseRules, flags.quicEnabled)
    /\ pc' = "done"
    /\ UNCHANGED <<rawArgs, flags, config, countryInfo, lowCost, countryGroupNames,
                   countries, lists, countryProxyGroups, proxyGroups>>

\* the caller has taken the result; the locals of main are gone
Return ==
    /\ pc = "done"
    /\ pc' = "idle"
    /\ config' = NoProxies
    /\ countryInfo' = <<>>
    /\ lowCost' = FALSE
    /\ countryGroupNames' = <<>>
    /\ countries' = <<>>
    /\ lists' = NoLists
    /\ countryProxyGroups' = <<>>
    /\ proxyGroups' = <<>>
    /\ finalRules' = <<>>
    /\ UNCHANGED <<rawArgs, flags, baseRules>>

Next ==
    \/ Load
    \/ Call
    \/ ParseCountries
    \/ HasLowCost
    \/ GetCountryGroupNames
    \/ BuildBaseLists
    \/ BuildCountryProxyGroups
    \/ BuildProxyGroups
    \/ BuildRules
    \/ Return

Spec == Init /\ [][Next]_vars

\* The module load alone, under every form the arguments can arrive in.
InitFlags == \E args \in RawArguments : Loading(args)

NextFlags == Load

SpecFlags == InitFlags /\ [][NextFlags]_vars

-----------------------------------------------------------------------------
(* Properties of the classifier. *)

Range(seq) == { seq[i] : i \in DOMAIN seq }

\* parseCountries has just returned to main
Classified == pc = "hasLowCost"

\* the proxies of config whose name does not match the ISP/landing pattern
NonExcluded ==
    { i \in DOMAIN ProxiesOf(config) : ~Test(ispRegex, NameOf(ProxiesOf(config)[i])) }

\* the catalog positions whose expression matches name
MatchingRegions(name) == { k \in DOMAIN compiledRegex : Test(compiledRegex[k].regex, name) }

\* the catalog position of the first region whose pattern matches name, 0 when
\* none does
FirstRegion(name) ==
    IF \E k \in DOMAIN compiledRegex : Test(compiledRegex[k].regex, name)
    THEN CHOOSE k \in DOMAIN compiledRegex :
            /\ Test(compiledRegex[k].regex, name)
            /\ \A j \in 1..(k - 1) : ~Test(compiledRegex[j].regex, name)
    ELSE 0

\* the count countryInfo reports for a region, 0 when it reports none
Reported(country) ==
    IF \E i \in DOMAIN countryInfo : countryInfo[i].country = country
    THEN countryInfo[CHOOSE i \in DOMAIN countryInfo : countryInfo[i].country = country].count
    ELSE 0

RECURSIVE SumCounts(_)
SumCounts(info) == IF info = <<>> THEN 0 ELSE Head(info).count + SumCounts(Tail(info))

\* info reports, for every region, the number of the counted proxies whose
\* first matching region it is, reports no region twice and none outside the
\* catalog, and its counts sum to at most the number of counted proxies
CountsFirstMatches(info, counted, first) ==
    /\ \A k \in DOMAIN countriesMeta :
          Reported(countriesMeta[k].country) = Cardinality({ i \in counted : first[i] = k })
    /\ \A i, j \in DOMAIN info : info[i].country = info[j].country => i = j
    /\ \A i \in DOMAIN info :
          \E k \in DOMAIN countriesMeta : info[i].country = countriesMeta[k].country
    /\ SumCounts(info) <= Cardinality(counted)

\* C1: parseCountries counts every non-excluded proxy for the first region in
\* catalog order whose pattern matches its name, by exactly 1, and for no other
\* region: the count reported for a region is the number of proxies assigned to
\* it, no region is reported twice, and the counts sum to at most the number of
\* non-excluded proxies.
C1_FirstMatchingRegionOnly ==
    Classified =>
        \A counted \in {NonExcluded} :
        \A first \in {[i \in counted |-> FirstRegion(NameOf(ProxiesOf(config)[i]))]} :
            CountsFirstMatches(countryInfo, counted, first)

\* a counted proxy whose name matches two region patterns, beside one whose name
\* matches exactly one
C1_Witness ==
    /\ Classified
    /\ \E i \in NonExcluded :
          Cardinality(MatchingRegions(NameOf(ProxiesOf(config)[i]))) = 2
    /\ \E i \in NonExcluded :
          Cardinality(MatchingRegions(NameOf(ProxiesOf(config)[i]))) = 1
    /\ Len(countryInfo) = 2

\* config with the ISP-matching proxies removed
WithoutIsp(cfg) ==
    LET Keep(proxy) == ~Test(ispRegex, NameOf(proxy))
    IN [cfg EXCEPT !.proxies = SelectSeq(ProxiesOf(cfg), Keep)]

\* C2: a proxy whose name matches the ISP/landing pattern contributes to no
\* region count: the counts of the list are the counts of the list with the
\* ISP-matching proxies removed.
C2_IspContributesNothing ==
    Classified => countryInfo = parseCountries(WithoutIsp(config))

\* an ISP-matching proxy whose name matches a region pattern, beside a counted one
C2_Witness ==
    /\ Classified
    /\ \E i \in DOMAIN ProxiesOf(config) :
          /\ i \notin NonExcluded
          /\ MatchingRegions(NameOf(ProxiesOf(config)[i])) # {}
    /\ countryInfo # <<>>

-----------------------------------------------------------------------------
(* Properties of the group graph and of the rule list. *)

\* main has returned: proxyGroups and finalRules are those of the result
Returned == pc = "done"

\* the groups a group refers to: the positions of the groups its proxies name
RefersTo(groups, i) ==
    IF "proxies" \in DOMAIN groups[i]
    THEN { j \in DOMAIN groups : groups[j].name \in Range(groups[i].proxies) }
    ELSE {}

\* the groups left after removing, again and again, those that refer to none of
\* the groups left: the groups on a cycle or leading to one
RECURSIVE OnOrTowardsCycle(_, _)
OnOrTowardsCycle(refs, left) ==
    IF \E i \in left : refs[i] \cap left = {}
    THEN OnOrTowardsCycle(refs, { i \in left : refs[i] \cap left # {} })
    ELSE left

Acyclic(groups) ==
    \A refs \in {[i \in DOMAIN groups |-> RefersTo(groups, i)]} :
        /\ OnOrTowardsCycle(refs, DOMAIN groups) = {}
        /\ \A i \in DOMAIN groups : i \notin refs[i]

\* C3: no group of the proxy-groups of main reaches itself by following member
\* references through groups; in particular no group lists its own name.
C3_GroupGraphAcyclic == Returned => Acyclic(proxyGroups)

\* the graph with the landing hub, the low-cost hub and two region pools
C3_Witness ==
    /\ Returned
    /\ flags.landing
    /\ lowCost
    /\ Len(countryProxyGroups) = 2
    /\ \E i \in DOMAIN proxyGroups : RefersTo(proxyGroups, i) # {}

FrontProxy == <<"U+524D", "U+7F6E", "U+4EE3", "U+7406">>

\* list without the members that are in names, order kept
RECURSIVE Without(_, _)
Without(list, names) ==
    IF list = <<>> THEN <<>>
    ELSE IF Head(list) \in names THEN Without(Tail(list), names)
         ELSE <<Head(list)>> \o Without(Tail(list), names)

GroupsNamed(groups, name) == { i \in DOMAIN groups : groups[i].name = name }

\* C4: with landing set there is one front-proxy hub, and its members are the
\* top-level selector list without the landing hub and the fallback hub, order
\* kept, so that it names neither; without landing there is neither a
\* front-proxy hub nor a landing hub.
C4_FrontProxyBreaksCycle ==
    Returned =>
        /\ flags.landing =>
              /\ Cardinality(GroupsNamed(proxyGroups, FrontProxy)) = 1
              /\ \A i \in GroupsNamed(proxyGroups, FrontProxy) :
                    /\ proxyGroups[i].proxies =
                           Without(lists.defaultSelector,
                                   {PROXY_GROUPS.LANDING, PROXY_GROUPS.FALLBACK})
                    /\ PROXY_GROUPS.LANDING \notin Range(proxyGroups[i].proxies)
                    /\ PROXY_GROUPS.FALLBACK \notin Range(proxyGroups[i].proxies)
              /\ PROXY_GROUPS.LANDING \in Range(lists.defaultSelector)
              /\ PROXY_GROUPS.FALLBACK \in Range(lists.defaultSelector)
        /\ ~flags.landing =>
              /\ GroupsNamed(proxyGroups, FrontProxy) = {}
              /\ GroupsNamed(proxyGroups, PROXY_GROUPS.LANDING) = {}

\* landing set, with a region hub and the low-cost hub among the members
C4_Witness ==
    /\ Returned
    /\ flags.landing
    /\ lowCost
    /\ countryGroupNames # <<>>
    /\ \E i \in GroupsNamed(proxyGroups, FrontProxy) : Len(proxyGroups[i].proxies) >= 4

Global == <<"G", "L", "O", "B", "A", "L">>

\* C5: GLOBAL is the last group; its members are the names of all the other
\* groups, each once, in the order of proxy-groups, GLOBAL not among them; the
\* names of the groups are pairwise distinct.
C5_GlobalNamesEveryGroup ==
    Returned =>
        /\ proxyGroups # <<>>
        /\ proxyGroups[Len(proxyGroups)].name = Global
        /\ Len(proxyGroups[Len(proxyGroups)].proxies) = Len(proxyGroups) - 1
        /\ \A i \in 1..(Len(proxyGroups) - 1) :
              proxyGroups[Len(proxyGroups)].proxies[i] = proxyGroups[i].name
        /\ Global \notin Range(proxyGroups[Len(proxyGroups)].proxies)
        /\ \A i, j \in DOMAIN proxyGroups :
              proxyGroups[i].name = proxyGroups[j].name => i = j

\* every conditional group present: both landing groups, the low-cost hub and
\* two region pools
C5_Witness ==
    /\ Returned
    /\ flags.landing
    /\ lowCost
    /\ Len(countryProxyGroups) = 2
    /\ Len(proxyGroups[Len(proxyGroups)].proxies) = Len(proxyGroups) - 1

\* a rule is a catch-all when its first field is MATCH
IsMatch(rule) == StartsWith(rule, <<"M", "A", "T", "C", "H", ",">>)

BlocksUdp443 == <<"A", "N", "D", ",", "(", "(", "D", "S", "T", "-", "P", "O", "R", "T", ",", "4", "4", "3", ")", ",", "(", "N", "E", "T", "W", "O", "R", "K", ",", "U", "D", "P", ")", ")", ",", "R", "E", "J", "E", "C", "T">>

\* C6: with quicEnabled false the rules are the UDP/443 reject rule followed by
\* the base rules; with quicEnabled true they are the base rules and hold no
\* such rule; either way there is one MATCH rule and it is the last.
C6_RuleList ==
    Returned =>
        /\ ~flags.quicEnabled =>
              /\ finalRules[1] = BlocksUdp443
              /\ Tail(finalRules) = baseRules
        /\ flags.quicEnabled =>
              /\ finalRules = baseRules
              /\ BlocksUdp443 \notin Range(finalRules)
        /\ IsMatch(finalRules[Len(finalRules)])
        /\ \A i \in DOMAIN finalRules : IsMatch(finalRules[i]) => i = Len(finalRules)

\* the rule list with the UDP/443 rule in front
C6_Witness ==
    /\ Returned
    /\ ~flags.quicEnabled
    /\ Len(finalRules) = Len(baseRules) + 1
    /\ finalRules[1] = BlocksUdp443

-----------------------------------------------------------------------------
(* Properties of the threshold, the lists and the pools. *)

\* the names of names: the region hubs of a list
RegionHubsOf(list) ==
    { n \in Range(list) : \E k \in DOMAIN countriesMeta :
                              n = countriesMeta[k].country \o NODE_SUFFIX }

\* the hubs of the regions countryInfo reports with a count of at least t
HubsAtLeast(t) ==
    { countryInfo[i].country \o NODE_SUFFIX :
        i \in { j \in DOMAIN countryInfo : countryInfo[j].count >= t } }

\* buildBaseLists has just returned to main
ListsBuilt == pc = "buildCountryProxyGroups"

\* C7: region inclusion is monotonic in countryThreshold.  The region hubs named
\* by getCountryGroupNames, and present in each of the four lists, are those of
\* the reported regions whose count is at least the threshold; for thresholds
\* t1 <= t2 the hubs named at t2 are among those named at t1; and the counts
\* reported are those of the classification, whatever the threshold.
C7_ThresholdMonotonic ==
    ListsBuilt =>
        /\ Range(countryGroupNames) = HubsAtLeast(flags.countryThreshold)
        /\ RegionHubsOf(lists.defaultSelector) = HubsAtLeast(flags.countryThreshold)
        /\ RegionHubsOf(lists.defaultProxies) = HubsAtLeast(flags.countryThreshold)
        /\ RegionHubsOf(lists.defaultProxiesDirect) = HubsAtLeast(flags.countryThreshold)
        /\ RegionHubsOf(lists.defaultFallback) = HubsAtLeast(flags.countryThreshold)
        /\ \A t1, t2 \in 0..(MaxThreshold + 1) :
              t1 <= t2 => Range(getCountryGroupNames(countryInfo, t2))
                              \subseteq Range(getCountryGroupNames(countryInfo, t1))
        /\ \A i \in DOMAIN countryInfo :
              countryInfo[i].count =
                  Cardinality({ p \in NonExcluded :
                      FirstRegion(NameOf(ProxiesOf(config)[p])) # 0
                      /\ countriesMeta[FirstRegion(NameOf(ProxiesOf(config)[p]))].country
                             = countryInfo[i].country })

\* a reported region below the threshold: it is named at the threshold below
C7_Witness ==
    /\ ListsBuilt
    /\ countryInfo # <<>>
    /\ flags.countryThreshold = 2
    /\ countryGroupNames = <<>>
    /\ getCountryGroupNames(countryInfo, 1) # <<>>

\* buildCountryProxyGroups has just returned to main
PoolsBuilt == pc = "buildProxyGroups"

UrlTestKeys == {"url", "interval", "tolerance", "lazy"}

\* C8: buildCountryProxyGroups emits one pool per qualifying region, in the
\* order of the qualifying list, named <region>节点; the pools are load-balance
\* when loadBalance is set and url-test otherwise; a url-test pool carries url,
\* interval and tolerance and lazy = false, a load-balance pool none of the four.
C8_OnePoolPerRegion ==
    PoolsBuilt =>
        /\ Len(countryProxyGroups) = Len(countryGroupNames)
        /\ \A i \in DOMAIN countryProxyGroups :
              /\ countryProxyGroups[i].name = countryGroupNames[i]
              /\ countryProxyGroups[i].name = countries[i] \o NODE_SUFFIX
              /\ countryProxyGroups[i].type =
                     (IF flags.loadBalance THEN "load-balance" ELSE "url-test")
              /\ countryProxyGroups[i].type = "url-test" =>
                     /\ UrlTestKeys \subseteq DOMAIN countryProxyGroups[i]
                     /\ countryProxyGroups[i].lazy = FALSE
              /\ countryProxyGroups[i].type = "load-balance" =>
                     UrlTestKeys \cap DOMAIN countryProxyGroups[i] = {}

\* two load-balance pools
C8_Witness ==
    /\ PoolsBuilt
    /\ flags.loadBalance
    /\ Len(countryProxyGroups) = 2

\* The pattern as the routing client compiles a filter: a leading (?i) makes
\* the whole pattern case-insensitive.
FilterRegExp(pattern) ==
    IF StartsWith(pattern, CaseInsensitivePrefix)
    THEN RegExp(Drop(pattern, Len(CaseInsensitivePrefix)), TRUE)
    ELSE RegExp(pattern, FALSE)

\* The routing client puts a proxy into a pool with include-all when its name
\* matches filter and does not match exclude-filter.
Admits(pool, name) ==
    /\ Test(FilterRegExp(pool.filter), name)
    /\ ~Test(FilterRegExp(pool.exclude_filter), name)

\* the pattern of the region a pool is named after
PatternOf(pool) ==
    countriesMeta[CHOOSE k \in DOMAIN countriesMeta :
                      pool.name = countriesMeta[k].country \o NODE_SUFFIX].pattern

\* C9: a region pool admits a proxy only if its name matches the pattern of the
\* region, does not match the low-cost pattern and, when landing is set, does
\* not match the landing/ISP pattern.
C9_PoolAdmitsNoLowCostNoLanding ==
    PoolsBuilt =>
        \A i \in DOMAIN countryProxyGroups :
        \A proxy \in Range(ProxiesOf(config)) \cup SampleProxies :
            Admits(countryProxyGroups[i], NameOf(proxy)) =>
                /\ Test(RegExp(PatternOf(countryProxyGroups[i]), FALSE), NameOf(proxy))
                /\ ~Test(lowCostRegex, NameOf(proxy))
                /\ flags.landing => ~Test(ispRegex, NameOf(proxy))

\* with landing set, the pool of a region and an input proxy of that region it
\* does not admit: a landing node
C9_Witness ==
    /\ PoolsBuilt
    /\ flags.landing
    /\ \E i \in DOMAIN countryProxyGroups : \E p \in DOMAIN ProxiesOf(config) :
          /\ Test(RegExp(PatternOf(countryProxyGroups[i]), FALSE),
                  NameOf(ProxiesOf(config)[p]))
          /\ Test(ispRegex, NameOf(ProxiesOf(config)[p]))
          /\ ~Test(lowCostRegex, NameOf(ProxiesOf(config)[p]))
          /\ ~Admits(countryProxyGroups[i], NameOf(ProxiesOf(config)[p]))

-----------------------------------------------------------------------------
(* Properties of the cost tier. *)

\* the text s occurs in the text t
Contains(t, s) == \E i \in 1..(Len(t) - Len(s) + 1) : SubSeq(t, i, i + Len(s) - 1) = s

\* the low-cost keywords, and the multipliers 0.0 to 0.5
LowCostKeywords ==
    { <<"U+4F4E", "U+500D", "U+7387">>, <<"U+7701", "U+6D41">>, <<"U+5927", "U+6D41", "U+91CF">>, <<"U+5B9E", "U+9A8C", "U+6027">>,
      <<"0", ".", "0">>, <<"0", ".", "1">>, <<"0", ".", "2">>, <<"0", ".", "3">>, <<"0", ".", "4">>, <<"0", ".", "5">> }

\* hasLowCost has just returned to main
CostTierComputed == pc = "getCountryGroupNames"

\* C10: the cost-tier flag is true exactly when some proxy has a name holding a
\* low-cost keyword, ISP-excluded or not, of a region or not; for an absent or
\* empty list it is false and no region is reported; a reported region has a
\* count of at least 1.
C10_CostTierAndCounts ==
    CostTierComputed =>
        /\ lowCost <=> \E i \in DOMAIN ProxiesOf(config) : \E kw \in LowCostKeywords :
                           Contains(NameOf(ProxiesOf(config)[i]), kw)
        /\ ProxiesOf(config) = <<>> => ~lowCost /\ countryInfo = <<>>
        /\ \A i \in DOMAIN countryInfo : countryInfo[i].count >= 1

\* the flag is set by an ISP-excluded proxy alone: no region is reported
C10_Witness ==
    /\ CostTierComputed
    /\ lowCost
    /\ countryInfo = <<>>
    /\ ProxiesOf(config) # <<>>

-----------------------------------------------------------------------------
(* Properties of the feature flags. *)

\* the module has loaded
Loaded == pc = "idle"

\* the integers whose decimal text the thresholds drawn can be
Numerals == (0 - MaxThreshold - 1)..(MaxThreshold + 1)

\* text is the decimal text of an integer
IsNumericText(text) == \E n \in Numerals : DecimalText(n) = text

\* text starts, after white space and a sign, with no digit
StartsWithNoNumber(text) ==
    \A n \in 0..9 : ~StartsWith(TrimStart(text), DecimalText(n))
                    /\ ~StartsWith(TrimStart(text), <<"-">> \o DecimalText(n))
                    /\ ~StartsWith(TrimStart(text), <<"+">> \o DecimalText(n))

\* C11: for every raw threshold argument buildFeatureFlags yields a
\* countryThreshold that is an integer >= 0: numeric text gives the integer it
\* writes, an absent or null value and text without a number give 0.
C11_ThresholdNonNegative ==
    Loaded =>
        /\ flags.countryThreshold \in Nat
        /\ rawArgs.threshold.type = "string" /\ IsNumericText(rawArgs.threshold.text) =>
              DecimalText(flags.countryThreshold) = rawArgs.threshold.text
        /\ rawArgs.threshold.type \in {"undefined", "null"} => flags.countryThreshold = 0
        /\ rawArgs.threshold.type = "string" /\ StartsWithNoNumber(rawArgs.threshold.text) =>
              flags.countryThreshold = 0

\* the threshold read from the text -1
C11_NegativeThreshold ==
    /\ Loaded
    /\ rawArgs.threshold = Text(<<"-", "1">>)
    /\ flags.countryThreshold = -1

-----------------------------------------------------------------------------
(* Properties of repeated runs. *)

\* main is between its first and its last statement
Running == pc \notin {"load", "idle", "done"}

\* how often rule occurs in rules
Occurrences(rule, rules) == Cardinality({ i \in DOMAIN rules : rules[i] = rule })

\* C12: no step of any run changes the base rule table or, while main runs,
\* the input proxy list; whatever ran before, what main returns is what the
\* composition of its statements gives for the same proxies and flags with the
\* table as loaded, and the UDP/443 rule occurs in the rules once without quic,
\* never with quic, and never in the table.
C12_PurelyFunctional ==
    [][ /\ baseRules' = InitialBaseRules
        /\ Running => config' = config
        /\ pc' = "done" =>
              \A out \in {main(config', flags', InitialBaseRules)} :
                  /\ proxyGroups' = out.proxy_groups
                  /\ finalRules' = out.rules
                  /\ Occurrences(QuicRejectRule, finalRules') =
                         IF flags'.quicEnabled THEN 0 ELSE 1
                  /\ Occurrences(QuicRejectRule, baseRules') = 0 ]_vars

\* a run without quic, with landing, over a list that has a low-cost proxy has
\* returned and the table is as loaded
C12_Witness ==
    /\ Returned
    /\ ~flags.quicEnabled
    /\ flags.landing
    /\ lowCost
    /\ config.hasProxies
    /\ Len(config.proxies) = MaxProxies
    /\ Len(countryProxyGroups) >= 1
    /\ finalRules # baseRules
    /\ baseRules = InitialBaseRules

-----------------------------------------------------------------------------
(* Properties of the four base lists. *)

\* the one-element list of name when cond holds, else no element
Only(cond, name) == IF cond THEN <<name>> ELSE <<>>

\* no element of list occurs twice
NoDuplicate(list) == \A i, j \in DOMAIN list : list[i] = list[j] => i = j

\* the hubs of the regions the classifier reports, in its order
ReportedHubs == [i \in DOMAIN countryInfo |-> countryInfo[i].country \o NODE_SUFFIX]

\* sub holds elements of list in the order list has them
RECURSIVE IsSubsequence(_, _)
IsSubsequence(sub, list) ==
    IF sub = <<>> THEN TRUE
    ELSE IF list = <<>> THEN FALSE
    ELSE IF Head(sub) = Head(list) THEN IsSubsequence(Tail(sub), Tail(list))
    ELSE IsSubsequence(sub, Tail(list))

\* C13: the four lists of buildBaseLists hold no empty entry and no duplicate
\* and are, in order: selector = fallback, landing (if landing), region hubs,
\* low-cost (if cost tier), manual, DIRECT; general = select, region hubs,
\* low-cost, manual, direct hub; direct-preferring = direct hub, region hubs,
\* low-cost, select, manual; fallback = landing (if landing), region hubs,
\* low-cost, manual, DIRECT; the region hubs are in the classifier's order.
C13_FourLists ==
    ListsBuilt =>
        \A hubs \in {countryGroupNames} :
        \A low \in {Only(lowCost, PROXY_GROUPS.LOW_COST)} :
        \A land \in {Only(flags.landing, PROXY_GROUPS.LANDING)} :
            /\ lists.defaultSelector =
                   <<PROXY_GROUPS.FALLBACK>> \o land \o hubs \o low
                       \o <<PROXY_GROUPS.MANUAL, DIRECT>>
            /\ lists.defaultProxies =
                   <<PROXY_GROUPS.SELECT>> \o hubs \o low
                       \o <<PROXY_GROUPS.MANUAL, PROXY_GROUPS.DIRECT>>
            /\ lists.defaultProxiesDirect =
                   <<PROXY_GROUPS.DIRECT>> \o hubs \o low
                       \o <<PROXY_GROUPS.SELECT, PROXY_GROUPS.MANUAL>>
            /\ lists.defaultFallback =
                   land \o hubs \o low \o <<PROXY_GROUPS.MANUAL, DIRECT>>
            /\ IsSubsequence(hubs, ReportedHubs)
            /\ \A list \in {lists.defaultSelector, lists.defaultProxies,
                            lists.defaultProxiesDirect, lists.defaultFallback} :
                   /\ NoDuplicate(list)
                   /\ \A i \in DOMAIN list : list[i] # <<>>

\* lists built with both conditional hubs dropped and two region hubs kept
C13_Witness ==
    /\ ListsBuilt
    /\ ~flags.landing
    /\ ~lowCost
    /\ Len(countryGroupNames) = 2
    /\ Len(lists.defaultFallback) = 4
    /\ Len(lists.defaultSelector) = 5

-----------------------------------------------------------------------------
(* Properties of the references of the output. *)

\* the fields of a rule: its text split at the commas outside parentheses
RECURSIVE FieldsFrom(_, _, _)
FieldsFrom(text, depth, field) ==
    IF text = <<>> THEN <<field>>
    ELSE IF Head(text) = "," /\ depth = 0
         THEN <<field>> \o FieldsFrom(Tail(text), 0, <<>>)
    ELSE FieldsFrom(Tail(text),
                    IF Head(text) = "(" THEN depth + 1
                    ELSE IF Head(text) = ")" THEN depth - 1 ELSE depth,
                    Append(field, Head(text)))

Fields(rule) == FieldsFrom(rule, 0, <<>>)

\* the policy a rule with these fields sends its traffic to: the second field
\* of MATCH, the third of any other rule
Target(fields) == IF fields[1] = <<"M", "A", "T", "C", "H">> THEN fields[2] ELSE fields[3]

\* the policies the routing client has built in
Terminals == {<<"D", "I", "R", "E", "C", "T">>, <<"R", "E", "J", "E", "C", "T">>, <<"R", "E", "J", "E", "C", "T", "-", "D", "R", "O", "P">>}

\* the names the groups list as members
Members(groups) ==
    UNION { Range(groups[i].proxies) : i \in { j \in DOMAIN groups : "proxies" \in DOMAIN groups[j] } }

\* the policies the rules send to
Targets(rules) == { Target(fields) : fields \in { Fields(rules[i]) : i \in DOMAIN rules } }

\* C14: in the output of main every name a group lists as a member is the name
\* of a group of the same output or one of DIRECT, REJECT, REJECT-DROP, and
\* every rule's target is the name of a group of the output or REJECT.
C14_NoDanglingReference ==
    Returned =>
        \A names \in {Range(NamesOf(proxyGroups))} :
            /\ Members(proxyGroups) \subseteq names \cup Terminals
            /\ Targets(finalRules) \subseteq names \cup {<<"R", "E", "J", "E", "C", "T">>}

\* an output without landing and without cost tier, whose bilibili group names
\* the pools of Taiwan and Hong Kong
C14_Witness ==
    /\ Returned
    /\ ~flags.landing
    /\ ~lowCost
    /\ ~flags.quicEnabled
    /\ \E i \in DOMAIN proxyGroups :
           /\ "proxies" \in DOMAIN proxyGroups[i]
           /\ {<<"U+53F0", "U+6E7E", "U+8282", "U+70B9">>, <<"U+9999", "U+6E2F", "U+8282", "U+70B9">>} \subseteq Range(proxyGroups[i].proxies)
           /\ Len(proxyGroups[i].proxies) = 3
    /\ <<"R", "E", "J", "E", "C", "T">> \in Targets(finalRules)
    /\ PROXY_GROUPS.LANDING \notin Range(NamesOf(proxyGroups))
    /\ PROXY_GROUPS.LOW_COST \notin Range(NamesOf(proxyGroups))

-----------------------------------------------------------------------------
(* Properties of the threshold against what a pool holds. *)

\* the input proxies a pool admits through its filter and exclude-filter
Admitted(pool) ==
    { p \in DOMAIN ProxiesOf(config) : Admits(pool, NameOf(ProxiesOf(config)[p])) }

\* C15: every region pool main emits admits, through its filter and
\* exclude-filter, at least countryThreshold of the input proxies and at least
\* one of them.
C15_PoolHoldsEnoughNodes ==
    PoolsBuilt =>
        \A i \in DOMAIN countryProxyGroups :
        \A held \in {Cardinality(Admitted(countryProxyGroups[i]))} :
            /\ held >= flags.countryThreshold
            /\ held >= 1

\* a pool emitted for a region whose only proxy is a low-cost one: it admits
\* none of the input
C15_EmptyPool ==
    /\ PoolsBuilt
    /\ Len(ProxiesOf(config)) = 1
    /\ Test(lowCostRegex, NameOf(ProxiesOf(config)[1]))
    /\ Len(countryProxyGroups) = 1
    /\ Admitted(countryProxyGroups[1]) = {}

=============================================================================
